---- MODULE Spec2Model ----
(***************************************************************************)
(* Model of the ccadb_data parsing library: package initialisation reads  *)
(* two embedded CSV tables and builds three lookup maps.                   *)
(*                                                                         *)
(* Strings are sequences of one-character strings, as Go strings are       *)
(* sequences of bytes; bytes are integers 0..255.                          *)
(***************************************************************************)
EXTENDS Integers, Sequences, FiniteSets, TLC

VARIABLES
    f,                      \* embed.FS: the two embedded files
    pc,                     \* position of init()
    records,                \* local: records returned by reader.ReadAll()
    csvIdx,                 \* local: [MAX_IDX]int of readAllCertificateRecordsCSV
    greatestIdx,            \* local: greatestIdx of readAllCertificateRecordsCSV
    next,                   \* local: index (0-based) of the next element of records[1:]
    heap,                   \* allocated capability structs, addressed 1..Len(heap)
    caCertCapabilitiesMap,  \* map[[32]byte]*caCertCapabilities
    issuerCapabilitiesMap,  \* map[string]*issuerCapabilities
    issuerSPKISHA256Map,    \* map[string][32]byte
    log                     \* messages handed to the zap logger, in order

vars == <<f, pc, records, csvIdx, greatestIdx, next, heap,
          caCertCapabilitiesMap, issuerCapabilitiesMap, issuerSPKISHA256Map, log>>

(***************************************************************************)
(* Bounds of the model.                                                    *)
(***************************************************************************)
MaxRows == 2        \* data rows per table in the fully enumerated inputs

(***************************************************************************)
(* Program constants.                                                      *)
(***************************************************************************)
sha256_Size == 32

IDX_SHA256FINGERPRINT == 0
IDX_SUBJECTKEYIDENTIFIER == 1
IDX_CERTIFICATERECORDTYPE == 2
IDX_TLSCAPABLE == 3
IDX_TLSEVCAPABLE == 4
IDX_SMIMECAPABLE == 5
IDX_CODESIGNINGCAPABLE == 6
MAX_IDX == 7

CCADB_RECORD_ROOT == <<"R", "o", "o", "t", " ", "C", "e", "r", "t", "i", "f", "i", "c", "a", "t", "e">>
CCADB_RECORD_INTERMEDIATE == <<"I", "n", "t", "e", "r", "m", "e", "d", "i", "a", "t", "e", " ", "C", "e", "r", "t", "i", "f", "i", "c", "a", "t", "e">>

COL_SHA256FINGERPRINT == <<"S", "H", "A", "-", "2", "5", "6", " ", "F", "i", "n", "g", "e", "r", "p", "r", "i", "n", "t">>
COL_SUBJECTKEYIDENTIFIER == <<"S", "u", "b", "j", "e", "c", "t", " ", "K", "e", "y", " ", "I", "d", "e", "n", "t", "i", "f", "i", "e", "r">>
COL_CERTIFICATERECORDTYPE == <<"C", "e", "r", "t", "i", "f", "i", "c", "a", "t", "e", " ", "R", "e", "c", "o", "r", "d", " ", "T", "y", "p", "e">>
COL_TLSCAPABLE == <<"T", "L", "S", " ", "C", "a", "p", "a", "b", "l", "e">>
COL_TLSEVCAPABLE == <<"T", "L", "S", " ", "E", "V", " ", "C", "a", "p", "a", "b", "l", "e">>
COL_SMIMECAPABLE == <<"S", "/", "M", "I", "M", "E", " ", "C", "a", "p", "a", "b", "l", "e">>
COL_CODESIGNINGCAPABLE == <<"C", "o", "d", "e", " ", "S", "i", "g", "n", "i", "n", "g", " ", "C", "a", "p", "a", "b", "l", "e">>
STR_True == <<"T", "r", "u", "e">>

\* The header name each csvIdx slot is matched against (the switch of the header loop).
ColumnName(k) ==
    CASE k = IDX_SHA256FINGERPRINT -> COL_SHA256FINGERPRINT
      [] k = IDX_SUBJECTKEYIDENTIFIER -> COL_SUBJECTKEYIDENTIFIER
      [] k = IDX_CERTIFICATERECORDTYPE -> COL_CERTIFICATERECORDTYPE
      [] k = IDX_TLSCAPABLE -> COL_TLSCAPABLE
      [] k = IDX_TLSEVCAPABLE -> COL_TLSEVCAPABLE
      [] k = IDX_SMIMECAPABLE -> COL_SMIMECAPABLE
      [] k = IDX_CODESIGNINGCAPABLE -> COL_CODESIGNINGCAPABLE

Slots == 0 .. (MAX_IDX - 1)

NULL == 0           \* the nil pointer; heap addresses start at 1

Rep(c, n) == [j \in 1 .. n |-> c]

Max(a, b) == IF a > b THEN a ELSE b

Min(a, b) == IF a < b THEN a ELSE b

(***************************************************************************)
(* encoding/hex: DecodeString.                                             *)
(***************************************************************************)
HexDigits == <<"0", "1", "2", "3", "4", "5", "6", "7", "8", "9", "a", "b", "c", "d", "e", "f">>

HexUpper == <<"0", "1", "2", "3", "4", "5", "6", "7", "8", "9", "A", "B", "C", "D", "E", "F">>

IsHexChar(c) == \E v \in 1 .. 16 : HexDigits[v] = c \/ HexUpper[v] = c

\* reverseHexTable: the value 0..15 of a hex digit of either case.
HexVal(c) == (CHOOSE v \in 1 .. 16 : HexDigits[v] = c \/ HexUpper[v] = c) - 1

\* The decoding loop over the pairs s[j-1], s[j] (j is 1-based here and names the
\* second character of the pair); the first bad character ends it with an error.
RECURSIVE HexDecodeFrom(_, _, _)
HexDecodeFrom(s, j, acc) ==
    IF j > Len(s)
    THEN IF Len(s) % 2 = 1
         THEN [err |-> TRUE, bytes |-> acc]      \* InvalidByteError or ErrLength
         ELSE [err |-> FALSE, bytes |-> acc]
    ELSE IF ~IsHexChar(s[j - 1]) \/ ~IsHexChar(s[j])
         THEN [err |-> TRUE, bytes |-> acc]      \* InvalidByteError
         ELSE HexDecodeFrom(s, j + 2,
                  Append(acc, ((HexVal(s[j - 1]) * 16) + HexVal(s[j])) % 256))

hex_DecodeString(s) == HexDecodeFrom(s, 2, <<>>)

(***************************************************************************)
(* encoding/base64: StdEncoding.DecodeString (padded, non-strict).         *)
(***************************************************************************)
B64Alphabet ==
    <<"A", "B", "C", "D", "E", "F", "G", "H", "I", "J", "K", "L", "M", "N", "O", "P",
      "Q", "R", "S", "T", "U", "V", "W", "X", "Y", "Z", "a", "b", "c", "d", "e", "f",
      "g", "h", "i", "j", "k", "l", "m", "n", "o", "p", "q", "r", "s", "t", "u", "v",
      "w", "x", "y", "z", "0", "1", "2", "3", "4", "5", "6", "7", "8", "9", "+", "/">>

IsB64Char(c) == \E v \in 1 .. 64 : B64Alphabet[v] = c

B64Val(c) == (CHOOSE v \in 1 .. 64 : B64Alphabet[v] = c) - 1

\* The number of leading alphabet characters among the (at most four) characters
\* of the quantum that starts at position p.
RECURSIVE B64Run(_, _, _)
B64Run(s, p, j) ==
    IF j = 4 \/ p + j > Len(s) \/ ~IsB64Char(s[p + j])
    THEN j
    ELSE B64Run(s, p, j + 1)

\* The bytes of a quantum with n data characters (n = 4: three bytes, n = 3 and
\* padding: two, n = 2 and padding: one); trailing bits are not checked.
B64Bytes(s, p, n) ==
    LET v(k) == IF k < n THEN B64Val(s[p + k]) ELSE 0
        val == (v(0) * 262144) + (v(1) * 4096) + (v(2) * 64) + v(3)
        all == <<(val \div 65536) % 256, (val \div 256) % 256, val % 256>>
    IN SubSeq(all, 1, n - 1)

RECURSIVE B64DecodeFrom(_, _, _)
B64DecodeFrom(s, p, acc) ==
    IF p > Len(s)
    THEN [err |-> FALSE, bytes |-> acc]
    ELSE LET n == B64Run(s, p, 0) IN
         IF n = 4
         THEN B64DecodeFrom(s, p + 4, acc \o B64Bytes(s, p, 4))
         ELSE IF p + n > Len(s)
         THEN [err |-> TRUE, bytes |-> acc]              \* input ends inside a quantum
         ELSE IF s[p + n] # "=" \/ n < 2
         THEN [err |-> TRUE, bytes |-> acc]              \* illegal character or early padding
         ELSE IF n = 2 /\ (p + 3 > Len(s) \/ s[p + 3] # "=")
         THEN [err |-> TRUE, bytes |-> acc]              \* "xx=" needs a second '='
         ELSE IF p + 3 < Len(s)
         THEN [err |-> TRUE, bytes |-> acc]              \* data after the padding
         ELSE [err |-> FALSE, bytes |-> acc \o B64Bytes(s, p, n)]

\* '\r' and '\n' are skipped by the decoder wherever they stand.
base64_DecodeString(s) ==
    B64DecodeFrom(SelectSeq(s, LAMBDA c : c \notin {"\n", "\r"}), 1, <<>>)

(***************************************************************************)
(* var a [sha256.Size]byte; copy(a[:], slice): the first 32 bytes of the   *)
(* slice, the rest of the array staying zero.                              *)
(***************************************************************************)
CopyToArray(slice) ==
    [j \in 1 .. sha256_Size |-> IF j <= Len(slice) THEN slice[j] ELSE 0]

(***************************************************************************)
(* Table 1: readAllCertificateRecordsCSV.                                  *)
(***************************************************************************)

\* The header loop: csvIdx[k] is the offset (0-based) of the last header field
\* equal to the k-th column name and stays 0 when there is none; greatestIdx is
\* the greatest offset of a matched field.
ResolveHeader(header) ==
    LET hits(k) == {j \in 1 .. Len(header) : header[j] = ColumnName(k)}
        last(S) == CHOOSE j \in S : \A m \in S : m <= j
        matched == UNION {hits(k) : k \in Slots}
    IN [csvIdx |-> [k \in Slots |-> IF hits(k) = {} THEN 0 ELSE last(hits(k)) - 1],
        greatestIdx |-> IF matched = {} THEN 0 ELSE last(matched) - 1]

\* Mutant: the check for missing headers is left out.
HeaderMissing_Never(idx) == FALSE

\* for _, v := range csvIdx { if v == 0 { ... return } }
HeaderMissing(idx) == \E k \in Slots : idx[k] = 0

\* line[n] of a Go slice: defined only for n < len(line).
InRange(line, n) == n < Len(line)

Field(line, n) == line[n + 1]

\* The fields evaluated to build ccc, in the order of the composite literal.
CapSlots == <<IDX_CERTIFICATERECORDTYPE, IDX_TLSCAPABLE, IDX_TLSEVCAPABLE,
              IDX_SMIMECAPABLE, IDX_CODESIGNINGCAPABLE>>

\* ccc := caCertCapabilities{...}: every flag is the comparison with "True".
DecodeCapabilities(line, idx) ==
    [CertificateRecordType |-> Field(line, idx[IDX_CERTIFICATERECORDTYPE]),
     TlsCapable |-> Field(line, idx[IDX_TLSCAPABLE]) = STR_True,
     TlsEvCapable |-> Field(line, idx[IDX_TLSEVCAPABLE]) = STR_True,
     SmimeCapable |-> Field(line, idx[IDX_SMIMECAPABLE]) = STR_True,
     CodeSigningCapable |-> Field(line, idx[IDX_CODESIGNINGCAPABLE]) = STR_True]

\* Mutant: the S/MIME flag is not folded in.
MergeCapabilities_NoSmime(ic, ccc) ==
    [CertificateRecordType |->
         IF ccc.CertificateRecordType = CCADB_RECORD_ROOT
         THEN CCADB_RECORD_ROOT ELSE ic.CertificateRecordType,
     TlsCapable |-> IF ccc.TlsCapable THEN TRUE ELSE ic.TlsCapable,
     TlsEvCapable |-> IF ccc.TlsEvCapable THEN TRUE ELSE ic.TlsEvCapable,
     SmimeCapable |-> ic.SmimeCapable,
     CodeSigningCapable |-> IF ccc.CodeSigningCapable THEN TRUE ELSE ic.CodeSigningCapable]

\* Mutant: the record type of the first row is kept, Root is not promoted.
MergeCapabilities_NoPromotion(ic, ccc) ==
    [CertificateRecordType |-> ic.CertificateRecordType,
     TlsCapable |-> IF ccc.TlsCapable THEN TRUE ELSE ic.TlsCapable,
     TlsEvCapable |-> IF ccc.TlsEvCapable THEN TRUE ELSE ic.TlsEvCapable,
     SmimeCapable |-> IF ccc.SmimeCapable THEN TRUE ELSE ic.SmimeCapable,
     CodeSigningCapable |-> IF ccc.CodeSigningCapable THEN TRUE ELSE ic.CodeSigningCapable]

\* Mutant: the entry is overwritten with the incoming record.
MergeCapabilities_Overwrite(ic, ccc) == ccc

\* The body of "if ic := issuerCapabilitiesMap[keyIdentifier]; ic != nil": the
\* struct ic points to after folding ccc into it.
MergeCapabilities(ic, ccc) ==
    [CertificateRecordType |->
         IF ccc.CertificateRecordType = CCADB_RECORD_ROOT
         THEN CCADB_RECORD_ROOT ELSE ic.CertificateRecordType,
     TlsCapable |-> IF ccc.TlsCapable THEN TRUE ELSE ic.TlsCapable,
     TlsEvCapable |-> IF ccc.TlsEvCapable THEN TRUE ELSE ic.TlsEvCapable,
     SmimeCapable |-> IF ccc.SmimeCapable THEN TRUE ELSE ic.SmimeCapable,
     CodeSigningCapable |-> IF ccc.CodeSigningCapable THEN TRUE ELSE ic.CodeSigningCapable]

\* m[k] of a Go map of pointers: nil when k is absent.
MapGet(m, k) == IF k \in DOMAIN m THEN m[k] ELSE NULL

\* m[k] = v
MapPut(m, k, v) == [x \in (DOMAIN m) \cup {k} |-> IF x = k THEN v ELSE m[x]]

EmptyMap == [x \in {} |-> NULL]

NoIdx == [k \in Slots |-> 0]

LogEntry(level, msg) == [level |-> level, msg |-> msg]

(***************************************************************************)
(* The embedded files the model runs on.  A file is [readErr, parseErr,    *)
(* rows]: f.ReadFile fails, the CSV tokenizer fails, or the tokenizer      *)
(* yields rows (each a sequence of fields).                                *)
(***************************************************************************)
COL_CAOWNER == <<"C", "A", " ", "O", "w", "n", "e", "r">>

FP_A == <<"A", "A">> \o Rep("0", 62)         \* 32 bytes: AA 00 .. 00
FP_B == <<"b", "b">> \o Rep("0", 62)         \* 32 bytes: BB 00 .. 00, lower case
FP_SHORT == <<"A", "A">>                     \* valid hex, one byte
FP_BAD == <<"Z", "Z">>                       \* not hex

SKI_1 == <<"K", "1">>
SKI_2 == <<"K", "2">>

STR_False == <<"F", "a", "l", "s", "e">>
STR_true == <<"t", "r", "u", "e">>
STR_Other == <<"O", "t", "h", "e", "r">>

RecordTypes == {CCADB_RECORD_ROOT, CCADB_RECORD_INTERMEDIATE, STR_Other}

\* Token vectors for (TLS, TLS EV, S/MIME, Code Signing).
FlagTokens ==
    {<<STR_True, STR_False, STR_False, STR_true>>,
     <<STR_False, STR_True, STR_True, STR_False>>}

AllTrue == <<STR_True, STR_True, STR_True, STR_True>>

\* A row by column name: slot k of v is the value under ColumnName(k).
RowValues(fp, ski, type, flags) ==
    [k \in Slots |->
        CASE k = IDX_SHA256FINGERPRINT -> fp
          [] k = IDX_SUBJECTKEYIDENTIFIER -> ski
          [] k = IDX_CERTIFICATERECORDTYPE -> type
          [] OTHER -> flags[k - 2]]

LogicalRows ==
    {RowValues(fp, ski, type, fl) :
        fp \in {FP_A, FP_B}, ski \in {SKI_1, SKI_2}, type \in RecordTypes, fl \in FlagTokens}
    \cup {RowValues(fp, ski, CCADB_RECORD_ROOT, AllTrue) :
        fp \in {FP_SHORT, FP_BAD}, ski \in {SKI_1, SKI_2}}

\* The row written under header h: each value under its column, "x" elsewhere.
Layout(h, v) ==
    [j \in 1 .. Len(h) |->
        IF \E k \in Slots : ColumnName(k) = h[j]
        THEN v[CHOOSE k \in Slots : ColumnName(k) = h[j]]
        ELSE <<"x">>]

\* Rows that stop one or two fields early.
ShortRows(h) ==
    {SubSeq(Layout(h, RowValues(fp, SKI_1, CCADB_RECORD_ROOT, AllTrue)), 1, Len(h) - d) :
        fp \in {FP_A, FP_BAD}, d \in {1, 2}}

DataRows(h) == {Layout(h, v) : v \in LogicalRows} \cup ShortRows(h)

RECURSIVE SeqsUpTo(_, _)
SeqsUpTo(S, n) ==
    IF n = 0 THEN {<<>>}
    ELSE LET shorter == SeqsUpTo(S, n - 1)
         IN shorter \cup {Append(q, x) : q \in {r \in shorter : Len(r) = n - 1}, x \in S}

\* A header the code accepts: no required column first, the key identifier last.
Header0 ==
    <<COL_CAOWNER, COL_SHA256FINGERPRINT, COL_CERTIFICATERECORDTYPE, COL_TLSCAPABLE,
      COL_TLSEVCAPABLE, COL_SMIMECAPABLE, COL_CODESIGNINGCAPABLE, COL_SUBJECTKEYIDENTIFIER>>

\* Another column order, with two columns the library does not read.
Header1 ==
    <<COL_CAOWNER, COL_CODESIGNINGCAPABLE, COL_SUBJECTKEYIDENTIFIER, COL_SMIMECAPABLE,
      <<"x">>, COL_TLSEVCAPABLE, COL_CERTIFICATERECORDTYPE, COL_SHA256FINGERPRINT,
      COL_TLSCAPABLE>>

Swap(h, a, b) ==
    [j \in 1 .. Len(h) |-> IF j = a THEN h[b] ELSE IF j = b THEN h[a] ELSE h[j]]

Drop(h, a) == SubSeq(h, 1, a - 1) \o SubSeq(h, a + 1, Len(h))

\* Every required column once at offset 0 (Header0 with that column and the first swapped).
FirstColumnHeaders == {Swap(Header0, 1, a) : a \in 2 .. Len(Header0)}

\* Only the seven required columns.
Header7 == Drop(Header0, 1)

\* Header0 without one of the required columns.
MissingColumnHeaders == {Drop(Header0, a) : a \in 2 .. Len(Header0)}

OtherHeaders == {Header1, Header7} \cup FirstColumnHeaders \cup MissingColumnHeaders

File(rows) == [readErr |-> FALSE, parseErr |-> FALSE, rows |-> rows]

FileMissing == [readErr |-> TRUE, parseErr |-> FALSE, rows |-> <<>>]

FileUnparseable == [readErr |-> FALSE, parseErr |-> TRUE, rows |-> <<>>]

FileEmpty == File(<<>>)

Table1Files ==
    {FileMissing, FileUnparseable, FileEmpty}
    \cup {File(<<Header0>> \o rows) : rows \in SeqsUpTo(DataRows(Header0), MaxRows)}
    \cup UNION {{File(<<h>> \o rows) : rows \in SeqsUpTo(DataRows(h), 1)} : h \in OtherHeaders}

Table1Few ==
    {FileMissing, FileUnparseable, FileEmpty,
     File(<<Header0, Layout(Header0, RowValues(FP_A, SKI_1, CCADB_RECORD_ROOT, AllTrue))>>)}

B64_A == Rep("A", 43) \o <<"=">>             \* 32 bytes
B64_B == Rep("B", 43) \o <<"=">>             \* 32 bytes
B64_16 == Rep("A", 22) \o <<"=", "=">>       \* 16 bytes
B64_BAD == <<"!", "!", "!", "!">>            \* not Base64

Table2Header == <<<<"s", "k", "i">>, <<"s", "p", "k", "i">>>>

Table2Rows == {<<ski, v>> : ski \in {SKI_1, SKI_2}, v \in {B64_A, B64_B, B64_16, B64_BAD}}

Table2Files ==
    {FileMissing, FileUnparseable, FileEmpty,
     File(<<Table2Header, <<SKI_1, B64_A, <<"x">>>>>>),
     File(<<Table2Header, <<SKI_1>>, <<SKI_2, B64_B>>>>)}
    \cup {File(<<Table2Header>> \o rows) : rows \in SeqsUpTo(Table2Rows, MaxRows)}

Table2Few == {File(<<Table2Header, <<SKI_1, B64_A>>>>)}

EmbeddedFS ==
    {[t1 |-> a, t2 |-> b] : a \in Table1Files, b \in Table2Few}
    \cup {[t1 |-> a, t2 |-> b] : a \in Table1Few, b \in Table2Files}

(***************************************************************************)
(* init(): the maps are made, then the two tables are read in turn.        *)
(***************************************************************************)
Init ==
    /\ f \in EmbeddedFS
    /\ pc = "t1_open"
    /\ records = <<>>
    /\ csvIdx = NoIdx
    /\ greatestIdx = 0
    /\ next = 0
    /\ heap = <<>>
    /\ caCertCapabilitiesMap = EmptyMap
    /\ issuerCapabilitiesMap = EmptyMap
    /\ issuerSPKISHA256Map = EmptyMap
    /\ log = <<>>

\* A function returns: its locals are gone.
Return(to, entries) ==
    /\ pc' = to
    /\ records' = <<>>
    /\ csvIdx' = NoIdx
    /\ greatestIdx' = 0
    /\ next' = 0
    /\ log' = log \o entries

\* An index expression out of range: the goroutine running init() panics and
\* the process ends.
Panic(entries) ==
    /\ pc' = "panicked"
    /\ log' = log \o entries
    /\ UNCHANGED <<records, csvIdx, greatestIdx, next>>

\* Mutant: the error is fatal (as with logger.Fatal or panic(err)).
Abort_Fatal(to, entry) == Panic(<<entry>>)

\* logger.Info / logger.Error followed by return: the table is given up and
\* init() goes on.
Abort(to, entry) == Return(to, <<entry>>)

\* f.ReadFile, reader.ReadAll and the empty check of readAllCertificateRecordsCSV.
T1Open ==
    /\ pc = "t1_open"
    /\ UNCHANGED <<f, heap, caCertCapabilitiesMap, issuerCapabilitiesMap, issuerSPKISHA256Map>>
    /\ IF f.t1.readErr
       THEN Abort("t2_open", LogEntry("info", "CSV file could not be read"))
       ELSE IF f.t1.parseErr
       THEN Abort("t2_open", LogEntry("error", "CSV file could not be parsed"))
       ELSE IF Len(f.t1.rows) = 0
       THEN Abort("t2_open", LogEntry("error", "CSV file is empty"))
       ELSE /\ pc' = "t1_header"
            /\ records' = f.t1.rows
            /\ UNCHANGED <<csvIdx, greatestIdx, next, log>>

\* The header examination.
T1Header ==
    /\ pc = "t1_header"
    /\ UNCHANGED <<f, heap, caCertCapabilitiesMap, issuerCapabilitiesMap, issuerSPKISHA256Map>>
    /\ LET r == ResolveHeader(records[1]) IN
       IF HeaderMissing(r.csvIdx)
       THEN Abort("t2_open",
                LogEntry("error", "CSV data is missing one or more expected headers"))
       ELSE /\ pc' = "t1_loop"
            /\ csvIdx' = r.csvIdx
            /\ greatestIdx' = r.greatestIdx
            /\ next' = 0
            /\ UNCHANGED <<records, log>>

\* The key under which a decoded fingerprint is stored.
FingerprintKey(sha256Slice) == CopyToArray(sha256Slice)

\* &issuerCapabilities{caCertCapabilities: ccc}: a new struct holding a copy of
\* the struct at address ccc.
NewIssuerEntry(h, ccc) == [heap |-> Append(h, h[ccc]), addr |-> Len(h) + 1]

ShortLineWarning(line, greatest) ==
    IF Len(line) <= greatest
    THEN <<LogEntry("warn", "CSV data has a line that is missing one or more expected fields")>>
    ELSE <<>>

\* One iteration of "for _, line := range records[1:]".
T1Row ==
    /\ pc = "t1_loop"
    /\ next < Len(records) - 1
    /\ UNCHANGED <<f, issuerSPKISHA256Map>>
    /\ LET line == records[next + 2]
           warn == ShortLineWarning(line, greatestIdx)
       IN
       IF \E j \in 1 .. Len(CapSlots) : ~InRange(line, csvIdx[CapSlots[j]])
       THEN \* building ccc
            /\ Panic(warn)
            /\ UNCHANGED <<heap, caCertCapabilitiesMap, issuerCapabilitiesMap>>
       ELSE IF ~InRange(line, csvIdx[IDX_SHA256FINGERPRINT])
       THEN \* the argument of hex.DecodeString
            /\ Panic(warn)
            /\ UNCHANGED <<heap, caCertCapabilitiesMap, issuerCapabilitiesMap>>
       ELSE
       LET decoded == hex_DecodeString(Field(line, csvIdx[IDX_SHA256FINGERPRINT])) IN
       IF decoded.err
       THEN \* continue
            /\ pc' = pc
            /\ next' = next + 1
            /\ log' = log \o warn
                      \o <<LogEntry("warn", "CSV data contains an invalid hex string")>>
            /\ UNCHANGED <<records, csvIdx, greatestIdx, heap,
                           caCertCapabilitiesMap, issuerCapabilitiesMap>>
       ELSE
       LET ccc == Len(heap) + 1
           heap1 == Append(heap, DecodeCapabilities(line, csvIdx))
           caMap1 == MapPut(caCertCapabilitiesMap, FingerprintKey(decoded.bytes), ccc)
       IN
       IF ~InRange(line, csvIdx[IDX_SUBJECTKEYIDENTIFIER])
       THEN \* keyIdentifier := line[...], after the fingerprint map was written
            /\ Panic(warn)
            /\ heap' = heap1
            /\ caCertCapabilitiesMap' = caMap1
            /\ UNCHANGED issuerCapabilitiesMap
       ELSE
       LET keyIdentifier == Field(line, csvIdx[IDX_SUBJECTKEYIDENTIFIER])
           ic == MapGet(issuerCapabilitiesMap, keyIdentifier)
       IN
       /\ pc' = pc
       /\ next' = next + 1
       /\ log' = log \o warn
       /\ caCertCapabilitiesMap' = caMap1
       /\ UNCHANGED <<records, csvIdx, greatestIdx>>
       /\ IF ic # NULL
          THEN /\ heap' = [heap1 EXCEPT ![ic] = MergeCapabilities(heap1[ic], heap1[ccc])]
               /\ UNCHANGED issuerCapabilitiesMap
          ELSE LET new == NewIssuerEntry(heap1, ccc) IN
               /\ heap' = new.heap
               /\ issuerCapabilitiesMap' = MapPut(issuerCapabilitiesMap, keyIdentifier, new.addr)

\* The loop is over: readAllCertificateRecordsCSV returns.
T1Return ==
    /\ pc = "t1_loop"
    /\ next >= Len(records) - 1
    /\ Return("t2_open", <<>>)
    /\ UNCHANGED <<f, heap, caCertCapabilitiesMap, issuerCapabilitiesMap, issuerSPKISHA256Map>>

(***************************************************************************)
(* Table 2: readIssuerSPKIHashCSV.                                         *)
(***************************************************************************)

\* reader.FieldsPerRecord = 2: ReadAll fails on a record of any other length.
FieldCountError(rows) == \E j \in 1 .. Len(rows) : Len(rows[j]) # 2

\* Mutant: the length of the decoded value is not checked.
SPKIAccepted_AnyLength(decoded) == ~decoded.err

\* A decoded value is stored when decoding succeeded and gave sha256.Size bytes.
SPKIAccepted(decoded) == ~decoded.err /\ Len(decoded.bytes) = sha256_Size

T2Open ==
    /\ pc = "t2_open"
    /\ UNCHANGED <<f, heap, caCertCapabilitiesMap, issuerCapabilitiesMap, issuerSPKISHA256Map>>
    /\ IF f.t2.readErr
       THEN Abort("done", LogEntry("info", "CSV file could not be read"))
       ELSE IF f.t2.parseErr \/ FieldCountError(f.t2.rows)
       THEN Abort("done", LogEntry("error", "CSV file could not be parsed"))
       ELSE IF Len(f.t2.rows) = 0
       THEN Abort("done", LogEntry("error", "CSV file is empty"))
       ELSE /\ pc' = "t2_loop"
            /\ records' = f.t2.rows
            /\ next' = 0
            /\ UNCHANGED <<csvIdx, greatestIdx, log>>

\* One iteration of "for _, line := range records[1:]".
T2Row ==
    /\ pc = "t2_loop"
    /\ next < Len(records) - 1
    /\ pc' = pc
    /\ next' = next + 1
    /\ UNCHANGED <<f, records, csvIdx, greatestIdx, heap,
                   caCertCapabilitiesMap, issuerCapabilitiesMap>>
    /\ LET line == records[next + 2]
           decoded == base64_DecodeString(Field(line, 1))
       IN
       IF SPKIAccepted(decoded)
       THEN /\ issuerSPKISHA256Map' =
                   MapPut(issuerSPKISHA256Map, Field(line, 0), CopyToArray(decoded.bytes))
            /\ UNCHANGED log
       ELSE /\ UNCHANGED issuerSPKISHA256Map
            /\ log' = Append(log,
                   IF decoded.err
                   THEN LogEntry("warn", "CSV data contains an invalid Base64 string")
                   ELSE LogEntry("warn",
                            "CSV data contains a Base64 string with an invalid length"))

T2Return ==
    /\ pc = "t2_loop"
    /\ next >= Len(records) - 1
    /\ Return("done", <<>>)
    /\ UNCHANGED <<f, heap, caCertCapabilitiesMap, issuerCapabilitiesMap, issuerSPKISHA256Map>>

Next == T1Open \/ T1Header \/ T1Row \/ T1Return \/ T2Open \/ T2Row \/ T2Return

Spec == Init /\ [][Next]_vars

(***************************************************************************)
(* The lookup functions.                                                   *)
(***************************************************************************)
ZeroArray == [j \in 1 .. sha256_Size |-> 0]

GetCACertCapabilitiesBySHA256(sha256Fingerprint) ==
    MapGet(caCertCapabilitiesMap, sha256Fingerprint)

GetIssuerCapabilitiesByKeyIdentifier(b64KeyIdentifier) ==
    MapGet(issuerCapabilitiesMap, b64KeyIdentifier)

GetIssuerSPKISHA256ByKeyIdentifier(b64KeyIdentifier) ==
    IF b64KeyIdentifier \in DOMAIN issuerSPKISHA256Map
    THEN [issuerSPKI |-> issuerSPKISHA256Map[b64KeyIdentifier], ok |-> TRUE]
    ELSE [issuerSPKI |-> ZeroArray, ok |-> FALSE]

(***************************************************************************)
(* Vocabulary of the properties: what the embedded table says, read by     *)
(* column name, independently of the offsets the code resolved.            *)
(***************************************************************************)
T1Header0 == f.t1.rows[1]

\* The data rows of table 1, in file order.
T1Data == SubSeq(f.t1.rows, 2, Len(f.t1.rows))

\* readAllCertificateRecordsCSV has returned.
T1Ingested == pc \in {"t2_open", "t2_loop", "done"}

T1Readable == ~f.t1.readErr /\ ~f.t1.parseErr /\ Len(f.t1.rows) > 0

HasColumn(h, name) == \E j \in 1 .. Len(h) : h[j] = name

\* The offset (1-based) of the column called name; the last one of that name.
ColumnOf(h, name) == CHOOSE j \in 1 .. Len(h) : h[j] = name /\ \A m \in (j + 1) .. Len(h) : h[m] # name

HasAllColumns(h) == \A k \in Slots : HasColumn(h, ColumnName(k))

HasCell(h, row, name) == HasColumn(h, name) /\ ColumnOf(h, name) <= Len(row)

Cell(h, row, name) == row[ColumnOf(h, name)]

\* A string of hex digit pairs.
IsHexString(s) == Len(s) % 2 = 0 /\ \A j \in 1 .. Len(s) : IsHexChar(s[j])

\* The row has a fingerprint field and it is a hex string.
HexRow(h, row) ==
    HasCell(h, row, COL_SHA256FINGERPRINT) /\ IsHexString(Cell(h, row, COL_SHA256FINGERPRINT))

KeyedRow(h, row, K) ==
    HasCell(h, row, COL_SUBJECTKEYIDENTIFIER) /\ Cell(h, row, COL_SUBJECTKEYIDENTIFIER) = K

\* The row says "True" under the column.
SaysTrue(h, row, name) == HasCell(h, row, name) /\ Cell(h, row, name) = STR_True

SaysRoot(h, row) ==
    HasCell(h, row, COL_CERTIFICATERECORDTYPE)
    /\ Cell(h, row, COL_CERTIFICATERECORDTYPE) = CCADB_RECORD_ROOT

FlagColumns == {COL_TLSCAPABLE, COL_TLSEVCAPABLE, COL_SMIMECAPABLE, COL_CODESIGNINGCAPABLE}

\* The flag of a capability struct that belongs to a column.
FlagOf(cap, name) ==
    CASE name = COL_TLSCAPABLE -> cap.TlsCapable
      [] name = COL_TLSEVCAPABLE -> cap.TlsEvCapable
      [] name = COL_SMIMECAPABLE -> cap.SmimeCapable
      [] name = COL_CODESIGNINGCAPABLE -> cap.CodeSigningCapable

\* The issuer entry of key identifier K.
IssuerEntry(K) == heap[issuerCapabilitiesMap[K]]

\* C1 as stated: after ingesting table 1, every flag of every issuer entry is the
\* OR of that flag over every data row whose key-identifier field is the entry's key.
C1_FlagsAreOrOfAllRows ==
    T1Ingested =>
        \A K \in DOMAIN issuerCapabilitiesMap : \A name \in FlagColumns :
            FlagOf(IssuerEntry(K), name) <=>
                \E j \in 1 .. Len(T1Data) :
                    /\ KeyedRow(T1Header0, T1Data[j], K)
                    /\ SaysTrue(T1Header0, T1Data[j], name)

\* C1 amended: after ingesting table 1, every flag of every issuer entry is the OR
\* of that flag over the data rows with the entry's key identifier whose
\* fingerprint field is a valid hex string (the rows that are not skipped).
C1_FlagsAreOrOfHexRows ==
    T1Ingested =>
        \A K \in DOMAIN issuerCapabilitiesMap : \A name \in FlagColumns :
            FlagOf(IssuerEntry(K), name) <=>
                \E j \in 1 .. Len(T1Data) :
                    /\ KeyedRow(T1Header0, T1Data[j], K)
                    /\ SaysTrue(T1Header0, T1Data[j], name)
                    /\ HexRow(T1Header0, T1Data[j])

\* C1 witness: an entry merged from two rows of one key identifier, TLS from one
\* and S/MIME from the other.
C1_Witness ==
    /\ T1Ingested
    /\ SKI_1 \in DOMAIN issuerCapabilitiesMap
    /\ IssuerEntry(SKI_1).TlsCapable
    /\ IssuerEntry(SKI_1).SmimeCapable
    /\ ~IssuerEntry(SKI_1).CodeSigningCapable
    /\ \E j \in 1 .. Len(T1Data) :
           /\ KeyedRow(T1Header0, T1Data[j], SKI_1)
           /\ ~SaysTrue(T1Header0, T1Data[j], COL_TLSCAPABLE)

\* The rows of the table that carry key identifier K, as positions of T1Data.
RowsOfKey(K) == {j \in 1 .. Len(T1Data) : KeyedRow(T1Header0, T1Data[j], K)}

\* Those of them whose fingerprint field is a valid hex string.
HexRowsOfKey(K) == {j \in RowsOfKey(K) : HexRow(T1Header0, T1Data[j])}

First(S) == CHOOSE j \in S : \A m \in S : j <= m

TypeSaid(j) == Cell(T1Header0, T1Data[j], COL_CERTIFICATERECORDTYPE)

\* The record type the claim assigns to an entry fed by the rows R: Root when one
\* of them is Root, the type of the first of them otherwise.
RootOrFirst(R) ==
    IF \E j \in R : SaysRoot(T1Header0, T1Data[j])
    THEN CCADB_RECORD_ROOT
    ELSE TypeSaid(First(R))

\* C2 as stated: after ingestion an issuer entry is "Root Certificate" when any
\* data row with its key identifier is Root, whatever the order of the rows, and
\* has the record type of the first row with its key identifier otherwise.
C2_RootOverAllRows ==
    T1Ingested =>
        \A K \in DOMAIN issuerCapabilitiesMap :
            /\ RowsOfKey(K) # {}
            /\ IssuerEntry(K).CertificateRecordType = RootOrFirst(RowsOfKey(K))

\* C2 amended: the same, counting only the rows whose fingerprint field is a valid
\* hex string: the entry is Root when any such row with its key identifier is
\* Root, whatever the order of the rows, and has the type of the first such row
\* otherwise.
C2_RootOverHexRows ==
    T1Ingested =>
        \A K \in DOMAIN issuerCapabilitiesMap :
            /\ HexRowsOfKey(K) # {}
            /\ IssuerEntry(K).CertificateRecordType = RootOrFirst(HexRowsOfKey(K))

\* C2 witness: the first row of a key identifier is not Root, a later one is, and
\* the entry is Root.
C2_Witness ==
    /\ T1Ingested
    /\ \E K \in DOMAIN issuerCapabilitiesMap :
           /\ IssuerEntry(K).CertificateRecordType = CCADB_RECORD_ROOT
           /\ ~SaysRoot(T1Header0, T1Data[First(HexRowsOfKey(K))])
           /\ \E j \in HexRowsOfKey(K) : SaysRoot(T1Header0, T1Data[j])

\* A data row that has every field of the header and a valid hex fingerprint.
CompleteHexRow(h, row) == Len(row) >= Len(h) /\ HexRow(h, row)

\* C3 as stated: a header that contains all seven required column names is
\* accepted whatever the order of its columns, a required column at offset 0
\* included: the data rows are ingested and the indexes populated.
C3_CompleteHeaderAccepted ==
    (T1Ingested /\ T1Readable /\ HasAllColumns(T1Header0)
        /\ \E j \in 1 .. Len(T1Data) : CompleteHexRow(T1Header0, T1Data[j]))
    => (DOMAIN caCertCapabilitiesMap # {} /\ DOMAIN issuerCapabilitiesMap # {})

\* The highest offset (0-based) of a required column of the header.
HighestRequired(h) ==
    LET S == {j \in 1 .. Len(h) : \E k \in Slots : h[j] = ColumnName(k)}
    IN (CHOOSE j \in S : \A m \in S : m <= j) - 1

\* C4 as stated: a data row with fewer fields than the highest required column
\* offset never terminates the process: the iteration that meets it logs the
\* warning and the loop goes on to the following row.
C4_ShortRowContinues ==
    [][(pc = "t1_loop" /\ next < Len(records) - 1
            /\ Len(records[next + 2]) <= HighestRequired(records[1]))
        => (/\ pc' = "t1_loop"
            /\ next' = next + 1
            /\ Len(log') > Len(log)
            /\ log'[Len(log) + 1].level = "warn")]_vars

\* Some required column name is not in the header.
LacksColumn(h) == \E k \in Slots : ~HasColumn(h, ColumnName(k))

\* C5: when the header of table 1 lacks one of the seven required column names,
\* no data row is ever processed, the process does not crash, and the fingerprint
\* index and the issuer capability index stay empty.
C5_MissingColumnAborts ==
    (T1Readable /\ LacksColumn(T1Header0)) =>
        /\ pc \notin {"t1_loop", "panicked"}
        /\ DOMAIN caCertCapabilitiesMap = {}
        /\ DOMAIN issuerCapabilitiesMap = {}
        /\ heap = <<>>

\* C5 witness: init() is through, the header lacked a column, the table had a
\* complete data row, and the schema error was logged.
C5_Witness ==
    /\ pc = "done"
    /\ T1Readable
    /\ LacksColumn(T1Header0)
    /\ \E j \in 1 .. Len(T1Data) : Len(T1Data[j]) >= Len(T1Header0)
    /\ \E j \in 1 .. Len(log) :
           log[j] = LogEntry("error", "CSV data is missing one or more expected headers")

\* C6 as stated: an iteration that meets a data row whose fingerprint field is not
\* a valid hex string adds nothing to the fingerprint index and nothing to the
\* issuer capability index, and the loop goes on to the following row.
C6_BadFingerprintRowSkipped ==
    [][(pc = "t1_loop" /\ next < Len(records) - 1
            /\ HasCell(records[1], records[next + 2], COL_SHA256FINGERPRINT)
            /\ ~IsHexString(Cell(records[1], records[next + 2], COL_SHA256FINGERPRINT)))
        => (/\ caCertCapabilitiesMap' = caCertCapabilitiesMap
            /\ issuerCapabilitiesMap' = issuerCapabilitiesMap
            /\ heap' = heap
            /\ pc' = "t1_loop"
            /\ next' = next + 1)]_vars

\* The bytes the fingerprint field of data row j stands for.
Digest(j) == hex_DecodeString(Cell(T1Header0, T1Data[j], COL_SHA256FINGERPRINT)).bytes

\* The schema resolver gave the table up.
SchemaErrorLogged ==
    \E j \in 1 .. Len(log) :
        log[j] = LogEntry("error", "CSV data is missing one or more expected headers")

\* The data rows that were decoded with success: the table got to the row loop,
\* every field read is there and the fingerprint is valid hex.
DecodedRows ==
    {j \in 1 .. Len(T1Data) :
        /\ T1Readable /\ ~SchemaErrorLogged
        /\ \A k \in Slots : HasCell(T1Header0, T1Data[j], ColumnName(k))
        /\ HexRow(T1Header0, T1Data[j])}

\* The record type and the four booleans data row j says.
Said(j) ==
    [CertificateRecordType |-> TypeSaid(j),
     TlsCapable |-> SaysTrue(T1Header0, T1Data[j], COL_TLSCAPABLE),
     TlsEvCapable |-> SaysTrue(T1Header0, T1Data[j], COL_TLSEVCAPABLE),
     SmimeCapable |-> SaysTrue(T1Header0, T1Data[j], COL_SMIMECAPABLE),
     CodeSigningCapable |-> SaysTrue(T1Header0, T1Data[j], COL_CODESIGNINGCAPABLE)]

Last(S) == CHOOSE j \in S : \A m \in S : m <= j

\* C7 as stated: after ingestion, for every 32-byte fingerprint F carried by a
\* decoded row, GetCACertCapabilitiesBySHA256(F) is the record type and the four
\* booleans said by the last decoded row that carries F.
C7_LastRowOfFingerprintWins ==
    T1Ingested =>
        \A j \in DecodedRows :
            Len(Digest(j)) = sha256_Size =>
                /\ GetCACertCapabilitiesBySHA256(Digest(j)) # NULL
                /\ heap[GetCACertCapabilitiesBySHA256(Digest(j))]
                       = Said(Last({m \in DecodedRows : Digest(m) = Digest(j)}))

(***************************************************************************)
(* Table 2 read by the properties.                                         *)
(***************************************************************************)
T2Data == SubSeq(f.t2.rows, 2, Len(f.t2.rows))

T2Readable ==
    /\ ~f.t2.readErr /\ ~f.t2.parseErr /\ Len(f.t2.rows) > 0
    /\ \A j \in 1 .. Len(f.t2.rows) : Len(f.t2.rows[j]) = 2

\* The second field is standard Base64 of exactly 32 bytes.
GoodHash(row) ==
    /\ ~base64_DecodeString(row[2]).err
    /\ Len(base64_DecodeString(row[2]).bytes) = 32

\* How many data rows of table 2 the loop has been through.
T2Processed ==
    IF pc = "t2_loop" THEN next
    ELSE IF pc = "done" /\ T2Readable THEN Len(T2Data)
    ELSE 0

\* The processed rows with key identifier K and a good hash.
GoodRowsOfKey(K) ==
    {j \in 1 .. T2Processed : T2Data[j][1] = K /\ GoodHash(T2Data[j])}

\* C8: a table-2 row whose second field is not valid Base64, or does not decode to
\* 32 bytes, is skipped: at every point of the loop, and when init() is through
\* with every row processed, the SPKI index holds exactly the key identifiers of
\* the processed rows with a good hash, each with the hash of its last such row,
\* and the lookup of any other key identifier reports not-found.
C8_BadHashRowsSkipped ==
    pc \in {"t2_loop", "done"} =>
        /\ \A K \in DOMAIN issuerSPKISHA256Map :
               /\ GoodRowsOfKey(K) # {}
               /\ issuerSPKISHA256Map[K]
                      = base64_DecodeString(T2Data[Last(GoodRowsOfKey(K))][2]).bytes
        /\ \A j \in 1 .. T2Processed :
               IF GoodRowsOfKey(T2Data[j][1]) = {}
               THEN ~GetIssuerSPKISHA256ByKeyIdentifier(T2Data[j][1]).ok
               ELSE GetIssuerSPKISHA256ByKeyIdentifier(T2Data[j][1]).ok

\* C8 witness: init() is through; the first row had a hash of 16 bytes and its key
\* identifier is not found, a later row of another key identifier is found.
C8_Witness ==
    /\ pc = "done"
    /\ T2Readable
    /\ Len(T2Data) >= 2
    /\ T2Data[1] = <<SKI_1, B64_16>>
    /\ ~GetIssuerSPKISHA256ByKeyIdentifier(SKI_1).ok
    /\ GetIssuerSPKISHA256ByKeyIdentifier(SKI_2).ok

\* An input that cannot be used: unreadable, unparseable or without any row.
T1Unusable == f.t1.readErr \/ f.t1.parseErr \/ Len(f.t1.rows) = 0

T2Unusable ==
    \/ f.t2.readErr \/ f.t2.parseErr \/ Len(f.t2.rows) = 0
    \/ \E j \in 1 .. Len(f.t2.rows) : Len(f.t2.rows[j]) # 2

\* Fingerprints and key identifiers the lookups are tried with.
ProbeFingerprints == {CopyToArray(<<170>>), CopyToArray(<<187>>), ZeroArray}

ProbeKeys == {SKI_1, SKI_2}

\* C9, table 1: once the unusable input was met the process has not crashed, the
\* two indexes of table 1 are empty, their lookups return nil, and table 2 is
\* ingested all the same.
C9_Table1 ==
    (T1Unusable /\ pc # "t1_open") =>
        /\ pc \in {"t2_open", "t2_loop", "done"}
        /\ DOMAIN caCertCapabilitiesMap = {}
        /\ DOMAIN issuerCapabilitiesMap = {}
        /\ \A F \in ProbeFingerprints : GetCACertCapabilitiesBySHA256(F) = NULL
        /\ \A K \in ProbeKeys : GetIssuerCapabilitiesByKeyIdentifier(K) = NULL
        /\ (pc = "done" /\ T2Readable) =>
               \A j \in 1 .. Len(T2Data) :
                   GoodHash(T2Data[j]) => GetIssuerSPKISHA256ByKeyIdentifier(T2Data[j][1]).ok

\* C9, table 2: once the unusable input was met the process has not crashed, the
\* SPKI index is empty and its lookup reports not-found.
C9_Table2 ==
    (T2Unusable /\ pc \notin {"t1_open", "t1_header", "t1_loop", "t2_open", "panicked"}) =>
        /\ pc = "done"
        /\ DOMAIN issuerSPKISHA256Map = {}
        /\ \A K \in ProbeKeys : ~GetIssuerSPKISHA256ByKeyIdentifier(K).ok

\* C9: an unreadable, empty or unparseable input aborts the ingestion of its own
\* table only: the step that meets it ends that table's function without a crash
\* and without touching any index, the indexes of the table stay empty and their
\* lookups report not-found, and the other table is ingested.
C9_UnusableInputAbortsOneTable ==
    /\ [](C9_Table1 /\ C9_Table2)
    /\ [][(pc = "t1_open" /\ T1Unusable) =>
              (pc' = "t2_open"
               /\ UNCHANGED <<heap, caCertCapabilitiesMap, issuerCapabilitiesMap,
                              issuerSPKISHA256Map>>)]_vars
    /\ [][(pc = "t2_open" /\ T2Unusable) =>
              (pc' = "done"
               /\ UNCHANGED <<heap, caCertCapabilitiesMap, issuerCapabilitiesMap,
                              issuerSPKISHA256Map>>)]_vars

\* C9 witness: init() is through, table 2 was unusable and its index is empty,
\* while table 1 was ingested.
C9_Witness ==
    /\ pc = "done"
    /\ T2Unusable
    /\ DOMAIN issuerSPKISHA256Map = {}
    /\ DOMAIN caCertCapabilitiesMap # {}
    /\ DOMAIN issuerCapabilitiesMap # {}

\* C10: at every step, every key identifier of the issuer capability index stays
\* in it, a flag of its entry that is true stays true, and a record type that is
\* "Root Certificate" stays "Root Certificate".
C10_IssuerIndexMonotonic ==
    [][\A K \in DOMAIN issuerCapabilitiesMap :
           /\ K \in DOMAIN issuerCapabilitiesMap'
           /\ \A name \in FlagColumns :
                  FlagOf(heap[issuerCapabilitiesMap[K]], name)
                      => FlagOf(heap'[issuerCapabilitiesMap'[K]], name)
           /\ heap[issuerCapabilitiesMap[K]].CertificateRecordType = CCADB_RECORD_ROOT
                  => heap'[issuerCapabilitiesMap'[K]].CertificateRecordType = CCADB_RECORD_ROOT
      ]_vars

\* C10 witness: the entry of a key identifier is Root with TLS true after a second
\* row of that key identifier that is neither Root nor TLS capable was merged.
C10_Witness ==
    /\ pc = "t1_loop"
    /\ next = 2
    /\ \E K \in DOMAIN issuerCapabilitiesMap :
           /\ KeyedRow(records[1], records[2], K) /\ HexRow(records[1], records[2])
           /\ KeyedRow(records[1], records[3], K) /\ HexRow(records[1], records[3])
           /\ SaysRoot(records[1], records[2]) /\ ~SaysRoot(records[1], records[3])
           /\ SaysTrue(records[1], records[2], COL_TLSCAPABLE)
           /\ ~SaysTrue(records[1], records[3], COL_TLSCAPABLE)
           /\ IssuerEntry(K).CertificateRecordType = CCADB_RECORD_ROOT
           /\ IssuerEntry(K).TlsCapable

\* C11 as stated: every key of the fingerprint index is the full decoded
\* fingerprint of some data row, that is the bytes a valid hex fingerprint field
\* of the table stands for, exactly 32 of them; a row whose field decodes to
\* fewer or more bytes (an empty field included) adds no key.
C11_KeysAreFullFingerprints ==
    \A F \in DOMAIN caCertCapabilitiesMap :
        \E j \in 1 .. Len(T1Data) :
            /\ HasCell(T1Header0, T1Data[j], COL_SHA256FINGERPRINT)
            /\ HexRow(T1Header0, T1Data[j])
            /\ Len(Digest(j)) = sha256_Size
            /\ Digest(j) = F

====
